---------------------------- MODULE Spec2Model ----------------------------
(***************************************************************************)
(* Model of msdt-4/Lab04.py: spread-spectrum watermark (CVZ) embedding in  *)
(* the magnitude spectrum of an image, correlation detection, the alpha    *)
(* grid search and the attack sweeps.                                      *)
(*                                                                         *)
(* Scale.  The carrier is N x N with N = 4 standing for 512, the embedding *)
(* block is rows/cols [BlockLo, BlockHi) = [1, 3) standing for [128, 384). *)
(* Library stand-ins.  np.fft.fft2 is the 2-D DFT over Z_N x Z_N; here it  *)
(* is the 2-D DFT over (Z_2 x Z_2) x (Z_2 x Z_2) (Walsh-Hadamard), which   *)
(* is exact on integers: the spectrum is real, its phase is 0 or pi and    *)
(* exp(i*phase) is +1 or -1.  PIL.rotate, convolve2d and the JPEG codec    *)
(* are external as well and are given integer stand-ins below.  Floating   *)
(* point arithmetic is modelled as exact arithmetic.                       *)
(***************************************************************************)
EXTENDS Integers, Sequences, FiniteSets, TLC

VARIABLES
    pc,                              \* position in the module-level script
    CVZ,                             \* line 16
    false_detection_cvz,             \* line 234
    false_detection_proximity_array, \* line 235
    image_array,                     \* line 247
    phase_array,                     \* line 252
    abs_spectrum,                    \* line 253
    original_abs_spectrum,           \* line 254
    modified_abs_spectrum,           \* line 257 (same object as abs_spectrum)
    png_file,                        \* contents of img_with_cvz.png
    reverse_array,                   \* lines 261, 267-269
    reverse_image,                   \* lines 262, 282
    shares_buffer,                   \* whether reverse_image views reverse_array's buffer
    included_cvz,                    \* line 273
    p,                               \* line 277
    included_cvz_estimation,         \* line 280
    cut_proximities,                 \* line 288
    rotation_proximities,            \* line 298
    smooth_proximities,              \* line 308
    jpeg_proximities,                \* line 318
    cut_trace,                       \* per cut evaluation: array before, parameter, indices touched
    stage_log,                       \* the stages in the order they were executed
    sba,                             \* frame of a call select_best_alpha(image)
    fn                               \* frame of a call of one of the pure functions

vars == <<pc, CVZ, false_detection_cvz, false_detection_proximity_array,
          image_array, phase_array, abs_spectrum, original_abs_spectrum,
          modified_abs_spectrum, png_file, reverse_array, reverse_image,
          shares_buffer, included_cvz, p, included_cvz_estimation,
          cut_proximities, rotation_proximities, smooth_proximities,
          jpeg_proximities, cut_trace, stage_log, sba, fn>>

script_vars == <<pc, CVZ, false_detection_cvz, false_detection_proximity_array,
          image_array, phase_array, abs_spectrum, original_abs_spectrum,
          modified_abs_spectrum, png_file, reverse_array, reverse_image,
          shares_buffer, included_cvz, p, included_cvz_estimation,
          cut_proximities, rotation_proximities, smooth_proximities,
          jpeg_proximities, cut_trace, stage_log>>

-----------------------------------------------------------------------------
(* Program constants and the scale of the model *)

ALPHA == 1

ThresholdNum == 1

ThresholdDen == 10

MaxPixel == 255

PsnrSentinel == 100

N == 4

BlockLo == 1

BlockHi == 3

NumDecoys == 2

GridStart == 1

GridStop == 1001

GridStep == 100

M == BlockHi - BlockLo

Idx == 0 .. (N - 1)

Pix == Idx \X Idx

MIdx == 0 .. (M - 1)

MPix == MIdx \X MIdx

None == [kind |-> "none"]

-----------------------------------------------------------------------------
(* Array helpers (numpy semantics) *)

\* the array f with every element computed once (TLC would otherwise
\* recompute an element of a constructed array at each access)
Eval(f) == f @@ f

RECURSIVE SumTo(_, _)
SumTo(s, k) == IF k = 0 THEN 0 ELSE s[k] + SumTo(s, k - 1)

\* sum(s) of a flat vector
SeqSum(s) == LET t == Eval(s) IN SumTo(t, Len(t))

\* ndarray.flatten(): row-major order of an n x n array
Flatten(a, n) == Eval([k \in 1 .. (n * n) |-> a[<<(k - 1) \div n, (k - 1) % n>>]])

Abs(x) == IF x < 0 THEN -x ELSE x

Min(a, b) == IF a < b THEN a ELSE b

\* uint8 arithmetic: results are reduced modulo 2^8
U8(x) == x % 256

\* the block a[BlockLo:BlockHi, BlockLo:BlockHi] as an M x M array
Block(a) == Eval([q \in MPix |-> a[<<q[1] + BlockLo, q[2] + BlockLo>>]])

InBlock(q) == /\ q[1] >= BlockLo /\ q[1] < BlockHi
              /\ q[2] >= BlockLo /\ q[2] < BlockHi


-----------------------------------------------------------------------------
(* Detection statistic: lines 19-25 and 114-121 *)

\* sum(u * v) over two flattened vectors
Dot(u, v) == SeqSum(Eval([k \in DOMAIN u |-> u[k] * v[k]]))

\* sum(a*b) / ((sum(a**2))**(1/2) * (sum(b**2))**(1/2)), kept as the exact
\* triple (dot, na, nb).  The code has no test of the denominator: with a
\* zero-norm argument the float64 division 0.0/0.0 is carried out and its
\* result is nan.
Correlation(u, v) ==
    LET dot == Dot(u, v)
        na  == Dot(u, u)
        nb  == Dot(v, v)
    IN  IF na = 0 \/ nb = 0
        THEN [kind |-> "nan", dot |-> dot, na |-> na, nb |-> nb,
              divided_by_zero |-> TRUE]
        ELSE [kind |-> "value", dot |-> dot, na |-> na, nb |-> nb,
              divided_by_zero |-> FALSE]

calculate_proximity(first_cvz, second_cvz) == Correlation(first_cvz, second_cvz)

\* x > 0.1 on the exact value dot / sqrt(na * nb); nan compares False
AboveThreshold(x) ==
    /\ x.kind = "value"
    /\ x.dot > 0
    /\ x.dot * x.dot >
         (ThresholdNum * ThresholdNum * x.na * x.nb) \div (ThresholdDen * ThresholdDen)

process_threshold(x) == IF AboveThreshold(x) THEN 1 ELSE 0

RECURSIVE Gcd(_, _)
Gcd(a, b) == IF b = 0 THEN a ELSE Gcd(b, a % b)

\* the square of a correlation value, dot^2 / (na * nb), in lowest terms
SquaredScore(x) ==
    LET g == Gcd(x.dot * x.dot, x.na * x.nb)
    IN  <<(x.dot * x.dot) \div g, (x.na * x.nb) \div g>>

\* equality of two correlation values as real numbers
SameScore(x, y) ==
    IF x.kind = "nan" \/ y.kind = "nan"
    THEN x.kind = y.kind
    ELSE /\ (x.dot > 0) = (y.dot > 0)
         /\ (x.dot < 0) = (y.dot < 0)
         /\ SquaredScore(x) = SquaredScore(y)

-----------------------------------------------------------------------------
(* Fidelity metric: lines 28-49 *)

\* (c - cw) ** 2 on uint8 arrays: the difference and the square are uint8
U8SquaredDiff(c, cw) == U8(U8(c - cw) * U8(c - cw))

\* np.mean(...) of the squared differences, as (sum, count)
MseSum(a, b) ==
    LET fa == Flatten(a, N)
        fb == Flatten(b, N)
    IN  SeqSum([k \in 1 .. (N * N) |-> U8SquaredDiff(fa[k], fb[k])])

\* 20*log10(255/sqrt(mse)) and 10*log10(255^2/mse) are the same real number,
\* kept symbolically as [kind "db", sq, n] with mse = sq / n
Decibel(sq, n) == [kind |-> "db", sq |-> sq, n |-> n]

calculate_psnr(original, compressed) ==
    LET sq == MseSum(original, compressed)
    IN  IF sq = 0 THEN [kind |-> "num", val |-> PsnrSentinel]
        ELSE Decibel(sq, N * N)

\* no test of the mean: 65025 / 0.0 is inf in float64 and log10(inf) is inf
calculate_psnr_alternative(c, cw) ==
    LET sq == MseSum(c, cw)
    IN  IF sq = 0 THEN [kind |-> "inf"]
        ELSE Decibel(sq, N * N)

\* new_psnr > psnr (line 96); psnr is the number 0, a decibel value or inf
PsnrGreater(a, b) ==
    CASE a.kind = "inf" -> b.kind # "inf"
      [] a.kind = "db" /\ b.kind = "inf" -> FALSE
      [] a.kind = "db" /\ b.kind = "db" -> a.sq * b.n < b.sq * a.n
      [] a.kind = "db" /\ b.kind = "num" ->
            b.val = 0 /\ MaxPixel * MaxPixel * a.n > a.sq
      [] OTHER -> FALSE

-----------------------------------------------------------------------------
(* Spectrum transform: lines 250-254, 260-261, 270-274 *)

Had == << <<1, 1, 1, 1>>, <<1, -1, 1, -1>>, <<1, 1, -1, -1>>, <<1, -1, -1, 1>> >>

H(i, j) == Had[i + 1][j + 1]

\* np.fft.fft2 (unnormalised forward transform), rows first, then columns
fft2(a) ==
    LET src  == Eval(a)
        rows == Eval([q \in Pix |->
                   SeqSum([k \in 1 .. N |-> H(q[2], k - 1) * src[<<q[1], k - 1>>]])])
    IN  Eval([q \in Pix |->
           SeqSum([k \in 1 .. N |-> H(q[1], k - 1) * rows[<<k - 1, q[2]>>]])])

\* np.fft.ifft2 is fft2 / (N*N) for this transform; the numerators
ifft2_numerators(s) == fft2(s)

\* cmath.phase of a real coefficient
phase(z) == IF z < 0 THEN "pi" ELSE "zero"

\* np.exp(phase * 1j)
ExpI(ph) == IF ph = "pi" THEN -1 ELSE 1

AbsArray(a) == LET src == Eval(a) IN Eval([q \in Pix |-> Abs(src[q])])

\* Image.fromarray(float array).convert("RGB").save(png); Image.open(png)
\* .convert("L"): each value x / (N*N) is clipped to [0, 255] and truncated
Quantize(numerators) ==
    [q \in Pix |->
        LET v == Abs(numerators[q]) \div (N * N)
        IN  IF v > MaxPixel THEN MaxPixel ELSE v]

\* modified_abs_spectrum[128:384, 128:384] = abs_spectrum[128:384, 128:384]
\*                                            + strength * CVZ
EmbedBlock(magnitude, strength, w) ==
    [q \in Pix |->
        IF InBlock(q)
        THEN magnitude[q] + strength * w[<<q[1] - BlockLo, q[2] - BlockLo>>]
        ELSE magnitude[q]]

\* abs(np.fft.ifft2(modified_abs_spectrum * np.exp(phase_array * 1j))),
\* as numerators over N*N
Reconstruct(magnitude, ph) ==
    AbsArray(ifft2_numerators([q \in Pix |-> magnitude[q] * ExpI(ph[q])]))

\* abs(np.fft.fft2(candidate) / np.exp(phase_array * 1j))
EstimatedMagnitude(candidate, ph) ==
    LET s == fft2(candidate)
    IN  Eval([q \in Pix |-> Abs(s[q] * ExpI(ph[q]))])

\* (reverse_abs_spectrum[128:384, 128:384]
\*    - original_abs_spectrum[128:384, 128:384]) / divisor
\* the divisor is ALPHA = 1 at every call site, so the quotient is exact
ExtractCvz(candidate, ph, magnitude, divisor) ==
    LET est == Block(EstimatedMagnitude(candidate, ph))
        ref == Block(magnitude)
    IN  Eval([q \in MPix |-> (est[q] - ref[q]) \div divisor])

\* the correlation inlined after every extraction
Score(candidate, ph, magnitude, w) ==
    Correlation(Flatten(w, M), Flatten(ExtractCvz(candidate, ph, magnitude, ALPHA), M))

-----------------------------------------------------------------------------
(* Inputs of the pure functions *)

FnLevels == {0, 1, 16, 17, 255}

\* an image of level v with pixel (0, 0) set to w
Spot(v, w) == [q \in Pix |-> IF q = <<0, 0>> THEN w ELSE v]

FnImages == {Spot(v, w) : v \in FnLevels, w \in FnLevels}

FnVectors == {<<a, b, 0, c>> : a \in {-1, 0, 2}, b \in {-1, 0, 2}, c \in {-1, 0, 2}}

FnCallPsnr ==
    /\ fn = None
    /\ \E a \in FnImages, b \in FnImages :
          fn' = [op |-> "calculate_psnr", a |-> a, b |-> b,
                 result |-> calculate_psnr(a, b)]
    /\ UNCHANGED <<script_vars, sba>>

FnCallPsnrAlternative ==
    /\ fn = None
    /\ \E a \in FnImages, b \in FnImages :
          fn' = [op |-> "calculate_psnr_alternative", a |-> a, b |-> b,
                 result |-> calculate_psnr_alternative(a, b)]
    /\ UNCHANGED <<script_vars, sba>>

FnCallProximity ==
    /\ fn = None
    /\ \E u \in FnVectors, v \in FnVectors :
          fn' = [op |-> "calculate_proximity", a |-> u, b |-> v,
                 result |-> calculate_proximity(u, v)]
    /\ UNCHANGED <<script_vars, sba>>

FnCallThreshold ==
    /\ fn = None
    /\ \E u \in FnVectors, v \in FnVectors :
          fn' = [op |-> "process_threshold", a |-> calculate_proximity(u, v),
                 b |-> None,
                 result |-> process_threshold(calculate_proximity(u, v))]
    /\ UNCHANGED <<script_vars, sba>>

-----------------------------------------------------------------------------
(* Inputs of a run: the random watermark, the decoys, the carrier file *)

\* an M x M array from its row-major values
ToBlock(t) == [q \in MPix |-> t[q[1] * M + q[2] + 1]]

\* an N x N array from its rows
ToImage(rows) == [q \in Pix |-> rows[q[1] + 1][q[2] + 1]]

\* np.random.normal(0, 1, size=[256, 256]): samples on an integer grid
CVZSet == { ToBlock(<<16, -16, 32, 0>>),
            ToBlock(<<-32, 16, 16, 48>>),
            ToBlock(<<1, 2, -1, 1>>),
            ToBlock(<<3, 0, 0, 0>>),
            ToBlock(<<-32, 16, -16, 0>>) }

\* np.random.normal(0, 1, size=[65536]): flat decoy vectors
DecoySet == { <<1, -1, 2, 0>>, <<-2, 1, 1, -3>> }

\* contents of bridge.tif, 8-bit grayscale
ImageSet == { ToImage(<< <<100, 120, 90, 80>>, <<60, 200, 40, 70>>,
                         <<90, 30, 150, 110>>, <<50, 80, 100, 130>> >>),
              ToImage(<< <<10, 250, 20, 240>>, <<200, 5, 180, 30>>,
                         <<40, 220, 60, 230>>, <<210, 15, 190, 0>> >>),
              ToImage(<< <<128, 128, 128, 128>>, <<128, 128, 128, 128>>,
                         <<128, 128, 128, 128>>, <<128, 128, 128, 128>> >>) }

-----------------------------------------------------------------------------
(* Attack sweeps: parameter arrays of lines 287, 297, 307, 317 *)

\* np.arange(0.55, 1.45, 0.15), in hundredths
cut_param_array == <<55, 70, 85, 100, 115, 130>>

\* np.arange(1, 90, 8.9), in tenths of a degree, with 1000*cos and 1000*sin
rotation_param_array ==
    << [angle |-> 10,  cos |-> 1000, sin |-> 17],
       [angle |-> 99,  cos |-> 985,  sin |-> 172],
       [angle |-> 188, cos |-> 947,  sin |-> 322],
       [angle |-> 277, cos |-> 885,  sin |-> 465],
       [angle |-> 366, cos |-> 803,  sin |-> 596],
       [angle |-> 455, cos |-> 701,  sin |-> 713],
       [angle |-> 544, cos |-> 582,  sin |-> 813],
       [angle |-> 633, cos |-> 449,  sin |-> 893],
       [angle |-> 722, cos |-> 306,  sin |-> 952],
       [angle |-> 811, cos |-> 155,  sin |-> 988] >>

\* np.arange(3, 15, 2)
smooth_param_array == <<3, 5, 7, 9, 11, 13>>

\* np.arange(30, 91, 10)
jpeg_param_array == <<30, 40, 50, 60, 70, 80, 90>>

\* int(replacement_proportion * len(array)), the proportion in hundredths
CutStop(proportion, len) == (proportion * len) \div 100

SliceStopUnclamped(stop, len) == stop

\* stop of the slice 0:stop on an axis of length len (stop >= 0): Python
\* clamps a slice bound to the axis
SliceStop(stop, len) == Min(stop, len)

\* indices selected by 0:stop
SliceIndices(stop, len) == 0 .. (SliceStop(stop, len) - 1)

\* reverse_array[0:k, 0:k] = image_array[0:k:, 0:k]  (lines 163-169), k from
\* len(reverse_array) on the left and len(image_array) on the right
CutReplace(target, source, proportion) ==
    LET rows == SliceIndices(CutStop(proportion, N), N)
        cols == SliceIndices(CutStop(proportion, N), N)
    IN  [q \in Pix |-> IF q[1] \in rows /\ q[2] \in cols
                       THEN source[q] ELSE target[q]]

\* abs(np.fft.ifft2(np.fft.fft2(x))): the round trip of lines 143-144
RoundTrip(x) ==
    LET back == ifft2_numerators(fft2(x))
    IN  Eval([q \in Pix |-> Abs(back[q]) \div (N * N)])

\* PIL Image.rotate, nearest neighbour, same size, fill 0: the output pixel
\* (x, y) takes the input pixel under the rotated centre of (x, y)
Rotate(img, r) ==
    [q \in Pix |->
        LET dy == 2 * q[1] + 1 - N
            dx == 2 * q[2] + 1 - N
            xin == (r.cos * dx - r.sin * dy + 1000 * N) \div 2000
            yin == (r.sin * dx + r.cos * dy + 1000 * N) \div 2000
        IN  IF xin \in Idx /\ yin \in Idx THEN img[<<yin, xin>>] ELSE 0]

\* reflection of an index at the borders (boundary="symm")
Reflect(i) == LET r == i % (2 * N) IN IF r < N THEN r ELSE 2 * N - 1 - r

\* convolve2d(image, np.full((m, m), 1) / (m*m), boundary="symm",
\* mode="same"): the m x m window sum, taken along the rows and then along
\* the columns, over m*m; the mean is kept on the integer grid
Smooth(img, m) ==
    LET h == (m - 1) \div 2
        along_rows == Eval([q \in Pix |->
            SeqSum([k \in 1 .. m |-> img[<<q[1], Reflect(q[2] + k - 1 - h)>>]])])
    IN  Eval([q \in Pix |->
            SeqSum([k \in 1 .. m |-> along_rows[<<Reflect(q[1] + k - 1 - h), q[2]>>]])
              \div (m * m)])

\* save(quality=qf) and reload: intensities fall on a grid that is coarser
\* for lower quality
Recompress(img, qf) ==
    LET step == (100 - qf) \div 10 + 1
    IN  [q \in Pix |-> (img[q] \div step) * step]

-----------------------------------------------------------------------------
(* The module-level script, lines 16 and 233-322 *)

ScriptOrderAnalysisLast == <<"watermark", "load", "embedding", "detection",
                 "false_positive", "cut", "rotation", "smooth", "jpeg", "done">>

\* the statements of the script in their textual order; plotting is left out
ScriptOrder == <<"watermark", "false_positive", "load", "embedding", "detection",
                 "cut", "rotation", "smooth", "jpeg", "done">>

\* the statement that follows statement s
After(s) == LET i == CHOOSE k \in 1 .. Len(ScriptOrder) : ScriptOrder[k] = s
            IN  ScriptOrder[i + 1]

Init ==
    /\ pc = ScriptOrder[1]
    /\ CVZ = None
    /\ false_detection_cvz = <<>>
    /\ false_detection_proximity_array = <<>>
    /\ image_array = None
    /\ phase_array = None
    /\ abs_spectrum = None
    /\ original_abs_spectrum = None
    /\ modified_abs_spectrum = None
    /\ png_file = None
    /\ reverse_array = None
    /\ reverse_image = None
    /\ shares_buffer = FALSE
    /\ included_cvz = None
    /\ p = None
    /\ included_cvz_estimation = None
    /\ cut_proximities = <<>>
    /\ rotation_proximities = <<>>
    /\ smooth_proximities = <<>>
    /\ jpeg_proximities = <<>>
    /\ cut_trace = <<>>
    /\ stage_log = <<>>
    /\ sba = None
    /\ fn = None

\* line 16: CVZ = np.random.normal(0, 1, size=[256, 256])
GenerateWatermark ==
    /\ pc = "watermark"
    /\ \E w \in CVZSet : CVZ' = w
    /\ pc' = After("watermark")
    /\ stage_log' = Append(stage_log, "watermark")
    /\ UNCHANGED <<false_detection_cvz, false_detection_proximity_array,
                   image_array, phase_array, abs_spectrum, original_abs_spectrum,
                   modified_abs_spectrum, png_file, reverse_array, reverse_image,
                   shares_buffer, included_cvz, p, included_cvz_estimation,
                   cut_proximities, rotation_proximities, smooth_proximities,
                   jpeg_proximities, cut_trace, sba, fn>>

\* lines 104-111
generate_false_detection_vectors(count) == [1 .. count -> DecoySet]

detect_false_proximity_reversed(false_cvz_list, cvz) ==
    [i \in 1 .. Len(false_cvz_list) |->
        calculate_proximity(cvz, false_cvz_list[Len(false_cvz_list) + 1 - i])]

\* lines 124-134: one score per vector, appended in the order of the list
detect_false_proximity(false_cvz_list, cvz) ==
    [i \in 1 .. Len(false_cvz_list) |-> calculate_proximity(cvz, false_cvz_list[i])]

\* line 236: the second argument of detect_false_proximity is CVZ.flatten()
FalseDetectionReference == Flatten(CVZ, M)

\* lines 233-236
FalsePositiveAnalysis ==
    /\ pc = "false_positive"
    /\ \E d \in generate_false_detection_vectors(NumDecoys) :
          /\ false_detection_cvz' = d
          /\ false_detection_proximity_array' =
                detect_false_proximity(d, FalseDetectionReference)
    /\ pc' = After("false_positive")
    /\ stage_log' = Append(stage_log, "false_positive")
    /\ UNCHANGED <<CVZ, image_array, phase_array, abs_spectrum,
                   original_abs_spectrum, modified_abs_spectrum, png_file,
                   reverse_array, reverse_image, shares_buffer, included_cvz, p,
                   included_cvz_estimation, cut_proximities, rotation_proximities,
                   smooth_proximities, jpeg_proximities, cut_trace, sba, fn>>

\* lines 245-254: two separate abs(spectre_array) arrays
LoadAndTransform ==
    /\ pc = "load"
    /\ \E img \in ImageSet :
          /\ image_array' = img
          /\ phase_array' = [q \in Pix |-> phase(fft2(img)[q])]
          /\ abs_spectrum' = AbsArray(fft2(img))
          /\ original_abs_spectrum' = AbsArray(fft2(img))
    /\ pc' = After("load")
    /\ UNCHANGED <<CVZ, false_detection_cvz, false_detection_proximity_array,
                   modified_abs_spectrum, png_file, reverse_array, reverse_image,
                   shares_buffer, included_cvz, p, included_cvz_estimation,
                   cut_proximities, rotation_proximities, smooth_proximities,
                   jpeg_proximities, cut_trace, stage_log, sba, fn>>

AliasesOfModifiedAll == {"abs_spectrum", "modified_abs_spectrum", "original_abs_spectrum"}

\* line 257: modified_abs_spectrum = abs_spectrum binds a second name to the
\* array of line 253; the array of line 254 is another object
AliasesOfModified == {"abs_spectrum", "modified_abs_spectrum"}

\* the value of a name after the store of line 258 through modified_abs_spectrum
AfterStore(name, old, new) == IF name \in AliasesOfModified THEN new ELSE old

\* lines 256-263
Embed ==
    /\ pc = "embedding"
    /\ LET new == EmbedBlock(abs_spectrum, ALPHA, CVZ)
           rec == Reconstruct(new, phase_array)
       IN  /\ modified_abs_spectrum' = new
           /\ abs_spectrum' = AfterStore("abs_spectrum", abs_spectrum, new)
           /\ original_abs_spectrum' =
                 AfterStore("original_abs_spectrum", original_abs_spectrum, new)
           /\ reverse_array' = [over |-> N * N, numerators |-> rec]
           /\ reverse_image' = [over |-> N * N, numerators |-> rec]
           /\ png_file' = Quantize(rec)
    /\ pc' = After("embedding")
    /\ stage_log' = Append(stage_log, "embedding")
    /\ UNCHANGED <<CVZ, false_detection_cvz, false_detection_proximity_array,
                   image_array, phase_array, shares_buffer, included_cvz, p,
                   included_cvz_estimation, cut_proximities, rotation_proximities,
                   smooth_proximities, jpeg_proximities, cut_trace, sba, fn>>

\* lines 265-282; Image.fromarray of line 282 may wrap the array's buffer
\* without copying it, which depends on the Pillow build
Detect ==
    /\ pc = "detection"
    /\ LET extracted == ExtractCvz(png_file, phase_array, original_abs_spectrum, ALPHA)
           score == Correlation(Flatten(CVZ, M), Flatten(extracted, M))
       IN  /\ reverse_array' = png_file
           /\ included_cvz' = extracted
           /\ p' = score
           /\ included_cvz_estimation' = process_threshold(score)
           /\ reverse_image' = png_file
    /\ \E sh \in BOOLEAN : shares_buffer' = sh
    /\ pc' = After("detection")
    /\ stage_log' = Append(stage_log, "detection")
    /\ UNCHANGED <<CVZ, false_detection_cvz, false_detection_proximity_array,
                   image_array, phase_array, abs_spectrum, original_abs_spectrum,
                   modified_abs_spectrum, png_file, cut_proximities,
                   rotation_proximities, smooth_proximities, jpeg_proximities,
                   cut_trace, sba, fn>>

\* the stage is logged when its first evaluation runs
Started(stage, done_so_far) ==
    IF done_so_far = 0 THEN Append(stage_log, stage) ELSE stage_log

\* the sweep goes on until its parameter array is exhausted
SweepPc(stage, done_now, params) ==
    IF done_now = Len(params) THEN After(stage) ELSE stage

\* lines 159-181, called from the loop of lines 289-292: the store goes into
\* the global reverse_array itself
CutEvaluation ==
    /\ pc = "cut"
    /\ LET i == Len(cut_proximities) + 1
           param == cut_param_array[i]
           new == CutReplace(reverse_array, image_array, param)
       IN  /\ reverse_array' = new
           /\ reverse_image' = IF shares_buffer THEN new ELSE reverse_image
           /\ cut_proximities' = Append(cut_proximities,
                 Score(new, phase_array, original_abs_spectrum, CVZ))
           /\ cut_trace' = Append(cut_trace,
                 [before |-> reverse_array, param |-> param,
                  rows |-> SliceIndices(CutStop(param, N), N),
                  cols |-> SliceIndices(CutStop(param, N), N),
                  after |-> new])
           /\ pc' = SweepPc("cut", i, cut_param_array)
    /\ stage_log' = Started("cut", Len(cut_proximities))
    /\ UNCHANGED <<CVZ, false_detection_cvz, false_detection_proximity_array,
                   image_array, phase_array, abs_spectrum, original_abs_spectrum,
                   modified_abs_spectrum, png_file, shares_buffer, included_cvz, p,
                   included_cvz_estimation, rotation_proximities,
                   smooth_proximities, jpeg_proximities, sba, fn>>

\* lines 137-156: reads the global reverse_image, binds a local reverse_array
rotate_and_calculate_proximity(img, rotation_angle) ==
    Score(RoundTrip(Rotate(img, rotation_angle)), phase_array,
          original_abs_spectrum, CVZ)

\* lines 184-206
smooth_and_calculate_proximity(img, m) ==
    Score(RoundTrip(Smooth(img, m)), phase_array, original_abs_spectrum, CVZ)

\* lines 209-230
compress_jpeg_and_calculate_proximity(img, qf) ==
    Score(RoundTrip(Recompress(img, qf)), phase_array, original_abs_spectrum, CVZ)

\* lines 299-302
RotationEvaluation ==
    /\ pc = "rotation"
    /\ LET i == Len(rotation_proximities) + 1
       IN  /\ rotation_proximities' = Append(rotation_proximities,
                 rotate_and_calculate_proximity(reverse_image, rotation_param_array[i]))
           /\ pc' = SweepPc("rotation", i, rotation_param_array)
    /\ stage_log' = Started("rotation", Len(rotation_proximities))
    /\ UNCHANGED <<CVZ, false_detection_cvz, false_detection_proximity_array,
                   image_array, phase_array, abs_spectrum, original_abs_spectrum,
                   modified_abs_spectrum, png_file, reverse_array, reverse_image,
                   shares_buffer, included_cvz, p, included_cvz_estimation,
                   cut_proximities, smooth_proximities, jpeg_proximities,
                   cut_trace, sba, fn>>

\* lines 309-312
SmoothEvaluation ==
    /\ pc = "smooth"
    /\ LET i == Len(smooth_proximities) + 1
       IN  /\ smooth_proximities' = Append(smooth_proximities,
                 smooth_and_calculate_proximity(reverse_image, smooth_param_array[i]))
           /\ pc' = SweepPc("smooth", i, smooth_param_array)
    /\ stage_log' = Started("smooth", Len(smooth_proximities))
    /\ UNCHANGED <<CVZ, false_detection_cvz, false_detection_proximity_array,
                   image_array, phase_array, abs_spectrum, original_abs_spectrum,
                   modified_abs_spectrum, png_file, reverse_array, reverse_image,
                   shares_buffer, included_cvz, p, included_cvz_estimation,
                   cut_proximities, rotation_proximities, jpeg_proximities,
                   cut_trace, sba, fn>>

\* lines 319-322
JpegEvaluation ==
    /\ pc = "jpeg"
    /\ LET i == Len(jpeg_proximities) + 1
       IN  /\ jpeg_proximities' = Append(jpeg_proximities,
                 compress_jpeg_and_calculate_proximity(reverse_image, jpeg_param_array[i]))
           /\ pc' = SweepPc("jpeg", i, jpeg_param_array)
    /\ stage_log' = Started("jpeg", Len(jpeg_proximities))
    /\ UNCHANGED <<CVZ, false_detection_cvz, false_detection_proximity_array,
                   image_array, phase_array, abs_spectrum, original_abs_spectrum,
                   modified_abs_spectrum, png_file, reverse_array, reverse_image,
                   shares_buffer, included_cvz, p, included_cvz_estimation,
                   cut_proximities, rotation_proximities, smooth_proximities,
                   cut_trace, sba, fn>>

Next ==
    \/ GenerateWatermark
    \/ FalsePositiveAnalysis
    \/ LoadAndTransform
    \/ Embed
    \/ Detect
    \/ CutEvaluation
    \/ RotationEvaluation
    \/ SmoothEvaluation
    \/ JpegEvaluation

Spec == Init /\ [][Next]_vars

-----------------------------------------------------------------------------
(* A call select_best_alpha(image) on the imported module, lines 52-101 *)

\* the number 0 that psnr and best_proximities start from
Zero == [kind |-> "num", val |-> 0]

\* range(1, 1001, 100)
AlphaGrid ==
    [k \in 1 .. ((GridStop - GridStart + GridStep - 1) \div GridStep) |->
        GridStart + (k - 1) * GridStep]

\* the module as imported: of the globals the function reads ALPHA and CVZ
InitSBA ==
    /\ pc = "imported"
    /\ CVZ \in CVZSet
    /\ false_detection_cvz = <<>>
    /\ false_detection_proximity_array = <<>>
    /\ image_array = None
    /\ phase_array = None
    /\ abs_spectrum = None
    /\ original_abs_spectrum = None
    /\ modified_abs_spectrum = None
    /\ png_file = None
    /\ reverse_array = None
    /\ reverse_image = None
    /\ shares_buffer = FALSE
    /\ included_cvz = None
    /\ p = None
    /\ included_cvz_estimation = None
    /\ cut_proximities = <<>>
    /\ rotation_proximities = <<>>
    /\ smooth_proximities = <<>>
    /\ jpeg_proximities = <<>>
    /\ cut_trace = <<>>
    /\ stage_log = <<>>
    /\ sba = [pc |-> "call"]
    /\ fn = None

sba_globals == <<pc, CVZ, false_detection_cvz, false_detection_proximity_array,
          image_array, phase_array, abs_spectrum, original_abs_spectrum,
          modified_abs_spectrum, reverse_array, reverse_image,
          shares_buffer, included_cvz, p, included_cvz_estimation,
          cut_proximities, rotation_proximities, smooth_proximities,
          jpeg_proximities, cut_trace, stage_log, fn>>

\* lines 56-59
SbaEnter ==
    /\ sba.pc = "call"
    /\ \E img \in ImageSet :
          sba' = [pc |-> "embed", image |-> img, k |-> 1,
                  psnr |-> Zero, best_alpha |-> 0, best_proximities |-> Zero,
                  trials |-> <<>>]
    /\ UNCHANGED <<sba_globals, png_file>>

\* the strength the loop body multiplies CVZ by and divides the difference by:
\* the global ALPHA of lines 71 and 86; the loop variable alpha is not used
SbaStrength(alpha) == ALPHA

\* line 69: modified_abs_spectrum = abs_spectrum, one array under two names
SbaAliasesOfModified == {"abs_spectrum", "modified_abs_spectrum"}

SbaAfterStore(name, old, new) == IF name \in SbaAliasesOfModified THEN new ELSE old

\* lines 60-76 of iteration k
SbaEmbed ==
    /\ sba.pc = "embed"
    /\ LET alpha == AlphaGrid[sba.k]
           spectre == fft2(sba.image)
           ph == Eval([q \in Pix |-> phase(spectre[q])])
           mag == AbsArray(spectre)
           new == EmbedBlock(mag, SbaStrength(alpha), CVZ)
           rec == Reconstruct(new, ph)
       IN  /\ sba' = [pc |-> "extract", image |-> sba.image, k |-> sba.k,
                      psnr |-> sba.psnr, best_alpha |-> sba.best_alpha,
                      best_proximities |-> sba.best_proximities,
                      trials |-> sba.trials,
                      alpha |-> alpha,
                      image_array |-> sba.image,
                      phase_array |-> ph,
                      abs_spectrum |-> SbaAfterStore("abs_spectrum", mag, new),
                      original_abs_spectrum |->
                          SbaAfterStore("original_abs_spectrum", mag, new),
                      modified_abs_spectrum |-> new,
                      multiplier |-> SbaStrength(alpha)]
           /\ png_file' = Quantize(rec)
    /\ UNCHANGED sba_globals

\* lines 78-92 of iteration k
SbaExtract ==
    /\ sba.pc = "extract"
    /\ LET extracted == ExtractCvz(png_file, sba.phase_array,
                                   sba.original_abs_spectrum, SbaStrength(sba.alpha))
           score == Correlation(Flatten(CVZ, M), Flatten(extracted, M))
       IN  sba' = [sba EXCEPT !.pc = "select"] @@
                  [reverse_array |-> png_file,
                   divisor |-> SbaStrength(sba.alpha),
                   included_cvz |-> extracted,
                   p |-> score,
                   included_cvz_estimation |-> process_threshold(score)]
    /\ UNCHANGED <<sba_globals, png_file>>

ImprovesOrEqual(new_psnr, psnr) == ~PsnrGreater(psnr, new_psnr)

\* line 96: the best so far is replaced when new_psnr > psnr
Improves(new_psnr, psnr) == PsnrGreater(new_psnr, psnr)

\* lines 93-100 of iteration k, and the step of the loop
SbaSelect ==
    /\ sba.pc = "select"
    /\ LET new_psnr == calculate_psnr_alternative(sba.image_array, sba.reverse_array)
           take == sba.included_cvz_estimation = 1 /\ Improves(new_psnr, sba.psnr)
       IN  sba' = [pc |-> IF sba.k = Len(AlphaGrid) THEN "return" ELSE "embed",
                   image |-> sba.image,
                   k |-> IF sba.k = Len(AlphaGrid) THEN sba.k ELSE sba.k + 1,
                   psnr |-> IF take THEN new_psnr ELSE sba.psnr,
                   best_alpha |-> IF take THEN sba.alpha ELSE sba.best_alpha,
                   best_proximities |-> IF take THEN sba.p ELSE sba.best_proximities,
                   trials |-> Append(sba.trials,
                       [alpha |-> sba.alpha, p |-> sba.p,
                        pass |-> sba.included_cvz_estimation = 1,
                        psnr |-> new_psnr])]
    /\ UNCHANGED <<sba_globals, png_file>>

\* line 101
SbaReturn ==
    /\ sba.pc = "return"
    /\ sba' = [pc |-> "returned", image |-> sba.image, trials |-> sba.trials,
               result |-> <<sba.best_alpha, sba.psnr, sba.best_proximities>>]
    /\ UNCHANGED <<sba_globals, png_file>>

NextSBA ==
    \/ SbaEnter
    \/ SbaEmbed
    \/ SbaExtract
    \/ SbaSelect
    \/ SbaReturn

SpecSBA == InitSBA /\ [][NextSBA]_vars

-----------------------------------------------------------------------------
(* Calls of the pure functions on the imported module *)

InitFn ==
    /\ pc = "imported"
    /\ CVZ \in CVZSet
    /\ false_detection_cvz = <<>>
    /\ false_detection_proximity_array = <<>>
    /\ image_array = None
    /\ phase_array = None
    /\ abs_spectrum = None
    /\ original_abs_spectrum = None
    /\ modified_abs_spectrum = None
    /\ png_file = None
    /\ reverse_array = None
    /\ reverse_image = None
    /\ shares_buffer = FALSE
    /\ included_cvz = None
    /\ p = None
    /\ included_cvz_estimation = None
    /\ cut_proximities = <<>>
    /\ rotation_proximities = <<>>
    /\ smooth_proximities = <<>>
    /\ jpeg_proximities = <<>>
    /\ cut_trace = <<>>
    /\ stage_log = <<>>
    /\ sba = None
    /\ fn = None

\* the call returns and the next one may be made
FnReturn ==
    /\ fn # None
    /\ fn' = None
    /\ UNCHANGED <<script_vars, sba>>

NextFn ==
    \/ FnReturn
    \/ FnCallPsnr
    \/ FnCallPsnrAlternative
    \/ FnCallProximity
    \/ FnCallThreshold

SpecFn == InitFn /\ [][NextFn]_vars

-----------------------------------------------------------------------------
(* Properties *)

AfterDetection == pc \in {"cut", "rotation", "smooth", "jpeg", "done"}

\* position of a stage in the log, 0 when it has not run
Position(stage) ==
    IF \E k \in 1 .. Len(stage_log) : stage_log[k] = stage
    THEN CHOOSE k \in 1 .. Len(stage_log) : stage_log[k] = stage
    ELSE 0

\* stage b has run only if stage a ran before it
Precedes(a, b) == Position(b) > 0 => (Position(a) > 0 /\ Position(a) < Position(b))

Sweeps == {"cut", "rotation", "smooth", "jpeg"}

\* C1: in iteration k of select_best_alpha the embedding adds the k-th grid
\* value times CVZ to the central magnitude block and the extraction divides
\* by that same grid value.
C1_StrengthIsGridValue ==
    /\ sba.pc \in {"extract", "select"} =>
          /\ sba.multiplier = AlphaGrid[sba.k]
          /\ sba.modified_abs_spectrum =
                EmbedBlock(sba.original_abs_spectrum, AlphaGrid[sba.k], CVZ)
    /\ sba.pc = "select" => sba.divisor = AlphaGrid[sba.k]

\* the trials of a finished call that passed detection
Passing == {k \in 1 .. Len(sba.trials) : sba.trials[k].pass}

\* C2: select_best_alpha returns (alpha, psnr, proximity) of the passing
\* candidate with the highest PSNR, the earliest one among equals, and
\* (0, 0, 0) when no candidate passes detection.
C2_ReturnsFirstBestPassing ==
    sba.pc = "returned" =>
        IF Passing = {}
        THEN sba.result = <<0, Zero, Zero>>
        ELSE \E k \in Passing :
                /\ \A j \in Passing :
                      ~PsnrGreater(sba.trials[j].psnr, sba.trials[k].psnr)
                /\ \A j \in Passing :
                      j < k => PsnrGreater(sba.trials[k].psnr, sba.trials[j].psnr)
                /\ sba.result = <<sba.trials[k].alpha, sba.trials[k].psnr,
                                  sba.trials[k].p>>

\* a call has returned the first grid value although later candidates passed
\* with the same PSNR
C2_Witness ==
    /\ sba.pc = "returned"
    /\ Cardinality(Passing) >= 2
    /\ sba.result[1] = AlphaGrid[1]
    /\ \A j \in Passing : sba.trials[j].psnr = sba.result[2]

\* C3: after any evaluations the watermarked image (reverse_array and
\* reverse_image) is still the freshly embedded one, and every reported score
\* is the score of the single attack applied to the freshly embedded image.
C3_AttacksStartFromWatermarked ==
    AfterDetection =>
        /\ reverse_array = png_file
        /\ reverse_image = png_file
        /\ \A i \in 1 .. Len(cut_proximities) :
              cut_proximities[i] =
                 Score(CutReplace(png_file, image_array, cut_param_array[i]),
                       phase_array, original_abs_spectrum, CVZ)
        /\ \A i \in 1 .. Len(rotation_proximities) :
              rotation_proximities[i] =
                 rotate_and_calculate_proximity(png_file, rotation_param_array[i])
        /\ \A i \in 1 .. Len(smooth_proximities) :
              smooth_proximities[i] =
                 smooth_and_calculate_proximity(png_file, smooth_param_array[i])
        /\ \A i \in 1 .. Len(jpeg_proximities) :
              jpeg_proximities[i] =
                 compress_jpeg_and_calculate_proximity(png_file, jpeg_param_array[i])

\* C4: a correlation with a zero-norm argument is reported as
\* DegenerateVector and no division by zero is performed.
C4_ZeroNormReported ==
    (fn # None /\ fn.op = "calculate_proximity"
       /\ (Dot(fn.a, fn.a) = 0 \/ Dot(fn.b, fn.b) = 0)) =>
        /\ fn.result.kind = "DegenerateVector"
        /\ ~fn.result.divided_by_zero

\* C5: the PSNR of an image against itself is the sentinel 100, for
\* calculate_psnr and for calculate_psnr_alternative.
C5_SelfPsnrIsSentinel ==
    (fn # None /\ fn.op \in {"calculate_psnr", "calculate_psnr_alternative"}
       /\ fn.a = fn.b) =>
        fn.result = [kind |-> "num", val |-> PsnrSentinel]

\* sum over the pixels of (reference - candidate)^2 on ordinary integers
IntegerSquaredError(a, b) ==
    SeqSum([k \in 1 .. (N * N) |->
        (Flatten(a, N)[k] - Flatten(b, N)[k]) * (Flatten(a, N)[k] - Flatten(b, N)[k])])

\* C8: the MSE behind the PSNR is the mean of (reference - candidate)^2 taken
\* on ordinary integers, and it is 0 only for equal images.
C8_MseOnIntegers ==
    (fn # None /\ fn.op \in {"calculate_psnr", "calculate_psnr_alternative"}) =>
        IF fn.result.kind = "db"
        THEN fn.result.sq = IntegerSquaredError(fn.a, fn.b)
        ELSE fn.a = fn.b

C7_EmbeddingFrame ==
    [][pc = "embedding" =>
          /\ image_array' = image_array
          /\ phase_array' = phase_array
          /\ original_abs_spectrum' = original_abs_spectrum
          /\ \A q \in Pix :
                modified_abs_spectrum'[q] =
                   IF InBlock(q)
                   THEN original_abs_spectrum[q]
                          + ALPHA * CVZ[<<q[1] - BlockLo, q[2] - BlockLo>>]
                   ELSE original_abs_spectrum[q]]_vars

\* the embedding has run and changed the magnitude of the block
C7_Witness ==
    /\ pc = "detection"
    /\ modified_abs_spectrum # original_abs_spectrum
    /\ original_abs_spectrum = AbsArray(fft2(image_array))

\* C9: every crop-replace evaluation touches only indices of the image,
\* overwrites the top-left k x k region, k = min(int(p*H), H), with the
\* original image, leaves the other pixels as they were, and for p >= 1 leaves
\* the candidate equal to the original image.
C9_CutRegion ==
    \A i \in 1 .. Len(cut_trace) :
        LET t == cut_trace[i]
            k == Min((t.param * N) \div 100, N)
        IN  /\ t.rows \subseteq Idx
            /\ t.cols \subseteq Idx
            /\ \A q \in Pix :
                  t.after[q] = IF q[1] < k /\ q[2] < k
                               THEN image_array[q] ELSE t.before[q]
            /\ t.param >= 100 => t.after = image_array

\* a proportion above 1 has been evaluated, and an evaluation has replaced
\* pixels that differed
C9_Witness ==
    /\ \E i \in 1 .. Len(cut_trace) :
          cut_trace[i].param > 100 /\ cut_trace[i].after = image_array
    /\ \E i \in 1 .. Len(cut_trace) :
          cut_trace[i].param < 100 /\ cut_trace[i].after # cut_trace[i].before

=============================================================================
